---- MODULE Spec2Model ----
(***************************************************************************)
(* Constrained clustering (src/main.py): the constraint store              *)
(* (ConstrainedClustering) and the pipeline of ConstraintsToLabels:        *)
(* fit_constrained = agglomerate_constrained_samples, merge_nodes          *)
(* (similarity matrix, complete_matrix, graph_cut_approx) and              *)
(* translate_labels.                                                       *)
(*                                                                         *)
(* Python arrays whose positions carry no meaning of their own (groups of  *)
(* samples, constrainedSamps, labelSet, the constraint blocks) are         *)
(* sequences; arrays indexed by a sample, a node or a dendrogram node      *)
(* (bigLabelSet, newLabels, simMat, clusMem) are functions on 0..n-1.      *)
(* Plotting (plot_graph_cut_problem, plot_constraints) changes no state    *)
(* and is left out. The two sklearn services are drawn, not computed: the  *)
(* dendrogram (children_) is any binary tree over the samples, read row by *)
(* row, and kneighbors gives each node any k other nodes.                  *)
(***************************************************************************)
EXTENDS Integers, Sequences, FiniteSets, TLC

\* ------------------------------------------------------------- bounds
NSamples == 4       \* rows of the data matrix in Spec
MaxCons == 3        \* rows of the constraint table in Spec
MaxK == 3           \* largest n_clusters in Spec (0 stands for None)
NWide == 5          \* rows of the data matrix in SpecWide
MaxConsWide == 2    \* rows of the constraint table in SpecWide
MaxNodes == 3       \* largest similarity matrix in SpecCut
MaxSim == 2         \* largest entry of a similarity matrix in SpecCut

\* ---------------------------------------------------- program constants
CLval == 0          \* the value of a cannot-link row
MLval == 1          \* the value of a must-link row
Nneigh == 2         \* merge_nodes: neighbours asked of complete_matrix
None == 0           \* n_clusters=None

VARIABLES
  N,                \* self.N: number of samples (rows of self.data)
  constraintMat,    \* the m x 3 constraint table given to __init__
  ML, CL,           \* self.ML, self.CL: the pairs of each kind, both ways round
  constrainedSamps, \* self.constrainedSamps
  n_clusters,       \* self.n_clusters (None is 0)
  children_,        \* hierarchical.children_, the rows read so far
  clusMem,          \* linkage_to_merges: members of every dendrogram node
  bigLabelSet,      \* agglomerate_constrained_samples: label of every sample
  labelSet,         \* self.labelSet
  workLabels,       \* the labelSet merge_nodes was given (kept for reference)
  netMat,           \* simMat as the loop of merge_nodes built it
  simMat,           \* the similarity matrix of merge_nodes / graph_cut_approx
  newLabels,        \* graph_cut_approx: the relabeling of the nodes
  invalidated,      \* nodes whose row and column a merge has set to -1
  merges,           \* merge steps graph_cut_approx has made
  pc                \* the place of the run

vars == <<N, constraintMat, ML, CL, constrainedSamps, n_clusters, children_,
          clusMem, bigLabelSet, labelSet, workLabels, netMat, simMat,
          newLabels, invalidated, merges, pc>>

\* ---------------------------------------------------------- array helpers
Range(s) == {s[k] : k \in 1..Len(s)}

\* The elements of a finite set of integers in ascending order (np.unique).
RECURSIVE SortedSeq(_)
SortedSeq(S) ==
  IF S = {} THEN <<>>
  ELSE LET m == CHOOSE x \in S : \A y \in S : x <= y
       IN <<m>> \o SortedSeq(S \ {m})

unique(a) == SortedSeq(Range(a))

\* a[mask]: the elements of a at the positions where mask is TRUE.
RECURSIVE BoolIndex(_, _)
BoolIndex(a, mask) ==
  IF a = <<>> THEN <<>>
  ELSE (IF Head(mask) THEN <<Head(a)>> ELSE <<>>) \o BoolIndex(Tail(a), Tail(mask))

arange(n) == [k \in 0..(n - 1) |-> k]

\* ---------------------------------------------------------------- ismember
\* memberInd starts all 0; every element of b sets the positions of a equal to it.
RECURSIVE ismemberLoop(_, _, _)
ismemberLoop(a, b, memberInd) ==
  IF b = <<>> THEN memberInd
  ELSE ismemberLoop(a, Tail(b),
         [k \in 1..Len(a) |-> IF a[k] = Head(b) THEN 1 ELSE memberInd[k]])

ismember(a, b) ==
  LET memberInd == ismemberLoop(a, b, [k \in 1..Len(a) |-> 0])
  IN [k \in 1..Len(a) |-> memberInd[k] > 0]

\* ------------------------------------------------- translate_to_counting_numbers
translate_to_counting_numbers(a) ==
  LET uniqueElements == unique(a)
  IN [k \in 1..Len(a) |->
        (CHOOSE u \in 1..Len(uniqueElements) : uniqueElements[u] = a[k]) - 1]

\* ------------------------------------------------------------ constraint store
constraints_by_value(cm, consVal) ==
  LET rows == SelectSeq(cm, LAMBDA row : row[3] = consVal)
  IN [k \in 1..Len(rows) |-> <<rows[k][1], rows[k][2]>>]

\* np.append(X, X[:,-1::-1], axis=0): the pairs, then the pairs swapped.
WithSwapped(pairs) ==
  pairs \o [k \in 1..Len(pairs) |-> <<pairs[k][2], pairs[k][1]>>]

\* np.unique(constraintMat.reshape(-1,1)): every entry of the table, all three
\* columns, distinct and sorted.
UniqueEntries(cm) ==
  SortedSeq(UNION {{cm[k][1], cm[k][2], cm[k][3]} : k \in 1..Len(cm)})

\* ------------------------------------------------------------ constraint queries
other_sample_in_pair(group, consVal) ==
  LET constraintBlock == IF consVal = CLval THEN CL ELSE ML
      col0 == [k \in 1..Len(constraintBlock) |-> constraintBlock[k][1]]
      col1 == [k \in 1..Len(constraintBlock) |-> constraintBlock[k][2]]
      involvedInConstraint == ismember(col0, group)
  IN BoolIndex(col1, involvedInConstraint)

is_CL_violated_all(group) ==
  LET otherCLsamp == other_sample_in_pair(group, CLval)
      isAlsoInGroup == ismember(group, otherCLsamp)
  IN \A k \in 1..Len(group) : isAlsoInGroup[k]

is_CL_violated(group) ==
  LET otherCLsamp == other_sample_in_pair(group, CLval)
      isAlsoInGroup == ismember(group, otherCLsamp)
  IN \E k \in 1..Len(group) : isAlsoInGroup[k]

number_of_constraints(group1, group2, consVal) ==
  LET otherSamp1 == other_sample_in_pair(group1, consVal)
      isInGroup2 == ismember(group2, otherSamp1)
  IN Cardinality({k \in 1..Len(group2) : isInGroup2[k]})

\* ------------------------------------------------------------------ inputs
\* A constraint row (i, j, kind) over n samples. The store keeps every pair both
\* ways round and only ever tests membership, so a table is drawn with i < j and
\* its rows in ascending order, without repeats. A table has at least one row
\* (on an empty table np.argmax raises in graph_cut_approx), and n >= 2, so that
\* the values 0 and 1 of the kind column are sample indices too.
Rows(n) == {<<i, j, v>> : i \in 0..(n - 1), j \in 0..(n - 1), v \in {CLval, MLval}}

RowKey(row, n) == (row[1] * n + row[2]) * 2 + row[3]

RECURSIVE TablesOfLen(_, _)
TablesOfLen(n, m) ==
  IF m = 0 THEN {<<>>}
  ELSE {Append(t, row) : t \in TablesOfLen(n, m - 1),
                         row \in {r \in Rows(n) : r[1] < r[2]}}

Ascending(t, n) == \A k \in 1..(Len(t) - 1) : RowKey(t[k], n) < RowKey(t[k + 1], n)

Tables(n, maxRows) ==
  UNION {{t \in TablesOfLen(n, m) : Ascending(t, n)} : m \in 1..maxRows}

\* ConstrainedClustering.__init__ and ConstraintsToLabels.__init__
Construct(n, cm, k) ==
  /\ N = n
  /\ constraintMat = cm
  /\ ML = WithSwapped(constraints_by_value(cm, MLval))
  /\ CL = WithSwapped(constraints_by_value(cm, CLval))
  /\ constrainedSamps = UniqueEntries(cm)
  /\ n_clusters = k
  /\ children_ = <<>>
  /\ clusMem = <<>>
  /\ bigLabelSet = <<>>
  /\ labelSet = <<>>
  /\ workLabels = <<>>
  /\ netMat = <<>>
  /\ simMat = <<>>
  /\ newLabels = <<>>
  /\ invalidated = {}
  /\ merges = 0
  /\ pc = "constructed"

Init ==
  \E cm \in Tables(NSamples, MaxCons), k \in {None} \cup 1..MaxK :
    Construct(NSamples, cm, k)

InitWide ==
  \E cm \in Tables(NWide, MaxConsWide) : Construct(NWide, cm, None)

\* ----------------------------------------------------------- fit_constrained
\* hierarchical.fit, self.N, self.labelSet = arange; then the locals of
\* agglomerate_constrained_samples and linkage_to_merges before their loops.
FitConstrained ==
  /\ pc = "constructed"
  /\ labelSet' = [k \in 1..Len(constrainedSamps) |-> k - 1]
  /\ bigLabelSet' = arange(N)
  /\ clusMem' = [x \in 0..(N - 1) |-> <<x>>]
  /\ children_' = <<>>
  /\ pc' = "agglomerate"
  /\ UNCHANGED <<N, constraintMat, ML, CL, constrainedSamps, n_clusters,
                 workLabels, netMat, simMat, newLabels, invalidated, merges>>

\* The dendrogram nodes not yet merged into a parent: the next row of
\* children_ names two of them (the clustering service returns a tree).
Unmerged ==
  (0..(N + Len(children_) - 1)) \ UNION {{children_[k][1], children_[k][2]} : k \in 1..Len(children_)}

\* bigLabelSet[group1] = bigLabelSet[group2[0]]
RelabelGroup(labels, group1, group2) ==
  [s \in DOMAIN labels |-> IF s \in Range(group1) THEN labels[group2[1]] ELSE labels[s]]

\* One turn of the loop over linkage_to_merges: the generator reads row i of
\* children_, records the parent's members and yields the two groups; the loop
\* body merges their labels unless a CL constraint lies within them.
AgglomerateStep ==
  /\ pc = "agglomerate"
  /\ Len(children_) < N - 1
  /\ \E g1 \in Unmerged, g2 \in Unmerged :
       /\ g1 # g2
       /\ LET i == Len(children_)
              group1 == clusMem[g1]
              group2 == clusMem[g2]
              allSamps == group1 \o group2
          IN /\ children_' = Append(children_, <<g1, g2>>)
             /\ clusMem' = [v \in 0..(N + i) |->
                              IF v = N + i THEN group1 \o group2 ELSE clusMem[v]]
             /\ bigLabelSet' = IF ~is_CL_violated(allSamps)
                                 THEN RelabelGroup(bigLabelSet, group1, group2)
                                 ELSE bigLabelSet
  /\ UNCHANGED <<N, constraintMat, ML, CL, constrainedSamps, n_clusters, labelSet,
                 workLabels, netMat, simMat, newLabels, invalidated, merges, pc>>

\* After the last merge: the labels of the constrained samples, renumbered.
\* The locals of the loop are dropped, and children_ is not read again.
AgglomerateFinish ==
  /\ pc = "agglomerate"
  /\ Len(children_) = N - 1
  /\ labelSet' = translate_to_counting_numbers(
                   [k \in 1..Len(constrainedSamps) |-> bigLabelSet[constrainedSamps[k]]])
  /\ children_' = <<>>
  /\ clusMem' = <<>>
  /\ bigLabelSet' = <<>>
  /\ pc' = "merge_nodes"
  /\ UNCHANGED <<N, constraintMat, ML, CL, constrainedSamps, n_clusters,
                 workLabels, netMat, simMat, newLabels, invalidated, merges>>

\* ---------------------------------------------------------------- merge_nodes
\* self.constrainedSamps[self.labelSet==i]
GroupOf(i) ==
  BoolIndex(constrainedSamps, [k \in 1..Len(labelSet) |-> labelSet[k] = i])

\* The loops over i and ii > i: val = Nml - Ncl goes to both (i,ii) and (ii,i);
\* the diagonal keeps the 0 of np.zeros.
BuildSimMat ==
  LET NuniqueLabels == Cardinality(Range(labelSet))
      val(i, ii) == number_of_constraints(GroupOf(i), GroupOf(ii), MLval)
                      - number_of_constraints(GroupOf(i), GroupOf(ii), CLval)
  IN [a \in 0..(NuniqueLabels - 1) |->
       [b \in 0..(NuniqueLabels - 1) |->
          IF a < b THEN val(a, b) ELSE IF b < a THEN val(b, a) ELSE 0]]

MergeNodesBuild ==
  /\ pc = "merge_nodes"
  /\ workLabels' = labelSet
  /\ simMat' = BuildSimMat
  /\ netMat' = BuildSimMat
  /\ pc' = "complete"
  /\ UNCHANGED <<N, constraintMat, ML, CL, constrainedSamps, n_clusters, children_,
                 clusMem, bigLabelSet, labelSet, newLabels, invalidated, merges>>

\* ------------------------------------------------------------ complete_matrix
\* kneighbors(centers): for every node, indices[i,1:(k+1)] are its k nearest
\* other nodes. The centres are not modelled; any choice of k others is drawn.
KSubsets(S, k) == {T \in SUBSET S : Cardinality(T) = k}

NeighbourChoices(Nnodes, k) ==
  [0..(Nnodes - 1) -> KSubsets(0..(Nnodes - 1), k)]

\* The loop over i: the neighbours of i whose entry in row i of simMat is 0 get
\* a 1 in row i and in column i of newSimMat.
RECURSIVE completeLoop(_, _, _, _)
completeLoop(sm, indices, newSimMat, i) ==
  IF i = Cardinality(DOMAIN sm) THEN newSimMat
  ELSE LET neighInd == {j \in indices[i] : sm[i][j] = 0}
       IN completeLoop(sm, indices,
            [a \in DOMAIN sm |-> [b \in DOMAIN sm |->
               IF (a = i /\ b \in neighInd) \/ (b = i /\ a \in neighInd)
                 THEN 1 ELSE newSimMat[a][b]]],
            i + 1)

complete_matrix(sm, indices) == completeLoop(sm, indices, sm, 0)

NeedsCompletion_Nneigh(Nnodes) == Nnodes > Nneigh

\* groupCenters.shape[0] > (Nneigh*2)
NeedsCompletion(Nnodes) == Nnodes > (Nneigh * 2)

\* The end of merge_nodes: the conditional call of complete_matrix, then the
\* call of graph_cut_approx up to its loop (Nnodes, newLabels = arange).
MergeNodesComplete ==
  /\ pc = "complete"
  /\ LET Nnodes == Cardinality(DOMAIN simMat)
     IN /\ IF NeedsCompletion(Nnodes)
             THEN \E indices \in NeighbourChoices(Nnodes, Nneigh) :
                    /\ \A i \in DOMAIN indices : i \notin indices[i]
                    /\ simMat' = complete_matrix(simMat, indices)
             ELSE simMat' = simMat
        /\ newLabels' = arange(Nnodes)
  /\ invalidated' = {}
  /\ merges' = 0
  /\ pc' = "cut"
  /\ UNCHANGED <<N, constraintMat, ML, CL, constrainedSamps, n_clusters, children_,
                 clusMem, bigLabelSet, labelSet, workLabels, netMat>>

\* ------------------------------------------------------------ graph_cut_approx
Nodes(sm) == DOMAIN sm

maxValOf(sm) ==
  CHOOSE v \in {sm[a][b] : a \in Nodes(sm), b \in Nodes(sm)} :
    \A a \in Nodes(sm), b \in Nodes(sm) : sm[a][b] <= v

\* np.argmax and np.unravel_index: the first position, row by row, of the maximum.
argmax(sm) ==
  LET n == Cardinality(Nodes(sm))
      top == maxValOf(sm)
  IN CHOOSE rc \in Nodes(sm) \X Nodes(sm) :
       /\ sm[rc[1]][rc[2]] = top
       /\ \A a \in Nodes(sm), b \in Nodes(sm) :
            sm[a][b] = top => rc[1] * n + rc[2] <= a * n + b

\* newLabels[newLabels==newLabels[c]] = newLabels[r]
RelabelNodes(nl, r, c) ==
  [l \in DOMAIN nl |-> IF nl[l] = nl[c] THEN nl[r] ELSE nl[l]]

\* The five assignments to simMat of a merge, in the order of the code.
MergeRows_keep_r(sm, r, c) ==
  LET s1 == [sm EXCEPT ![c] = [b \in Nodes(sm) |-> sm[c][b] + sm[r][b]]]
      s2 == [a \in Nodes(sm) |-> [s1[a] EXCEPT ![c] = s1[c][a]]]
  IN [s2 EXCEPT ![c][c] = 0]

MergeRows_no_mirror(sm, r, c) ==
  LET s1 == [sm EXCEPT ![c] = [b \in Nodes(sm) |-> sm[c][b] + sm[r][b]]]
      s3 == [s1 EXCEPT ![r] = [b \in Nodes(sm) |-> -1]]
      s4 == [a \in Nodes(sm) |-> [s3[a] EXCEPT ![r] = -1]]
  IN [s4 EXCEPT ![c][c] = 0]

MergeRows(sm, r, c) ==
  LET s1 == [sm EXCEPT ![c] = [b \in Nodes(sm) |-> sm[c][b] + sm[r][b]]]
      s2 == [a \in Nodes(sm) |-> [s1[a] EXCEPT ![c] = s1[c][a]]]
      s3 == [s2 EXCEPT ![r] = [b \in Nodes(sm) |-> -1]]
      s4 == [a \in Nodes(sm) |-> [s3[a] EXCEPT ![r] = -1]]
  IN [s4 EXCEPT ![c][c] = 0]

Ngroups(nl) == Cardinality({nl[l] : l \in DOMAIN nl})

\* One turn of the while loop, breaks included; leaving the loop returns
\* newLabels to merge_nodes and so to fit_constrained.
GraphCutStep ==
  /\ pc = "cut"
  /\ LET rc == argmax(simMat)
         r == rc[1]
         c == rc[2]
         maxVal == simMat[r][c]
     IN IF maxVal > 0
          THEN /\ newLabels' = RelabelNodes(newLabels, r, c)
               /\ simMat' = MergeRows(simMat, r, c)
               /\ invalidated' = invalidated \cup {r}
               /\ merges' = merges + 1
               /\ pc' = IF n_clusters # None /\ Ngroups(newLabels') <= n_clusters
                          THEN "translate" ELSE "cut"
          ELSE /\ pc' = "translate"
               /\ UNCHANGED <<newLabels, simMat, invalidated, merges>>
  /\ UNCHANGED <<N, constraintMat, ML, CL, constrainedSamps, n_clusters, children_,
                 clusMem, bigLabelSet, labelSet, workLabels, netMat>>

\* ------------------------------------------------------------ translate_labels
\* for lab in uniqueLabels: self.labelSet[self.labelSet==lab] = newLabels[lab],
\* in place, lab ascending.
RECURSIVE translateLoop(_, _, _)
translateLoop(ls, uniqueLabels, nl) ==
  IF uniqueLabels = <<>> THEN ls
  ELSE LET lab == Head(uniqueLabels)
       IN translateLoop([k \in 1..Len(ls) |-> IF ls[k] = lab THEN nl[lab] ELSE ls[k]],
                        Tail(uniqueLabels), nl)

translate_labels_skip_first(ls, nl) == translateLoop(ls, Tail(unique(ls)), nl)

translate_labels(ls, nl) == translateLoop(ls, unique(ls), nl)

TranslateLabels ==
  /\ pc = "translate"
  /\ labelSet' = translate_labels(labelSet, newLabels)
  /\ pc' = "done"
  /\ UNCHANGED <<N, constraintMat, ML, CL, constrainedSamps, n_clusters, children_,
                 clusMem, bigLabelSet, workLabels, netMat, simMat, newLabels,
                 invalidated, merges>>

\* ------------------------------------------------------------- specifications
Next ==
  \/ FitConstrained
  \/ AgglomerateStep
  \/ AgglomerateFinish
  \/ MergeNodesBuild
  \/ MergeNodesComplete
  \/ GraphCutStep
  \/ TranslateLabels

\* The whole run, on NSamples samples.
Spec == Init /\ [][Next]_vars

\* The whole run, on NWide samples: enough nodes for complete_matrix to be called.
SpecWide == InitWide /\ [][Next]_vars

\* graph_cut_approx and translate_labels alone, on any symmetric, zero-diagonal
\* matrix. translate_labels rewrites each element of labelSet by its own value
\* only, so one constrained sample stands for each of the Nnodes working labels.
SymMatrices(n) ==
  LET above == {ab \in (0..(n - 1)) \X (0..(n - 1)) : ab[1] < ab[2]}
  IN {[a \in 0..(n - 1) |-> [b \in 0..(n - 1) |->
         IF a < b THEN f[<<a, b>>] ELSE IF b < a THEN f[<<b, a>>] ELSE 0]] :
      f \in [above -> (-MaxSim)..MaxSim]}

InitCut ==
  \E n \in 1..MaxNodes :
    \E sm \in SymMatrices(n), k \in {None} \cup 1..(n + 1) :
      /\ N = 0
      /\ constraintMat = <<>>
      /\ ML = <<>>
      /\ CL = <<>>
      /\ constrainedSamps = [s \in 1..n |-> s - 1]
      /\ n_clusters = k
      /\ children_ = <<>>
      /\ clusMem = <<>>
      /\ bigLabelSet = <<>>
      /\ labelSet = [s \in 1..n |-> s - 1]
      /\ workLabels = [s \in 1..n |-> s - 1]
      /\ netMat = sm
      /\ simMat = sm
      /\ newLabels = arange(n)
      /\ invalidated = {}
      /\ merges = 0
      /\ pc = "cut"

NextCut ==
  \/ GraphCutStep
  \/ TranslateLabels

SpecCut == InitCut /\ [][NextCut]_vars

\* ------------------------------------------------------------------- claims
Nnodes == Cardinality(DOMAIN simMat)

\* The label labelSet gives to constrained sample x.
LabelOf(x) ==
  labelSet[CHOOSE k \in 1..Len(constrainedSamps) : constrainedSamps[k] = x]

NoPairBothKinds == \A k1 \in 1..Len(ML), k2 \in 1..Len(CL) : ML[k1] # CL[k2]

C2_AgglomerationRespectsCL ==
  /\ pc = "agglomerate" =>
       \A k \in 1..Len(CL) :
         CL[k][1] # CL[k][2] => bigLabelSet[CL[k][1]] # bigLabelSet[CL[k][2]]
  /\ pc = "merge_nodes" =>
       \A k \in 1..Len(CL) :
         CL[k][1] # CL[k][2] => LabelOf(CL[k][1]) # LabelOf(CL[k][2])

\* A merge of a group of two or more samples into another group was accepted
\* (all of them now share the label of the second group's first member) while
\* a cannot-link pair keeps other samples apart.
C2_Witness ==
  /\ pc = "agglomerate"
  /\ Len(CL) > 0
  /\ \E k \in 1..Len(children_) :
       LET group1 == clusMem[children_[k][1]]
           group2 == clusMem[children_[k][2]]
       IN /\ Len(group1) >= 2
          /\ \A s \in Range(group1) : bigLabelSet[s] = bigLabelSet[group2[1]]
  /\ \E k \in 1..Len(children_) :
       is_CL_violated(clusMem[children_[k][1]] \o clusMem[children_[k][2]])

\* C3: graph_cut_approx ends after at most M-1 merge steps, and the number of
\* distinct values of newLabels never grows from one turn of the loop to the
\* next. Ending is stated as: the merge steps never exceed M-1, the matrix is
\* never empty in the loop (np.argmax is defined, a turn can be taken), and
\* every turn that stays in the loop is a merge step.
C3_CutBoundedMonotoneTerminates ==
  /\ [](pc \in {"cut", "translate", "done"} => merges <= Nnodes - 1)
  /\ [](pc = "cut" => Nnodes >= 1)
  /\ [][pc = "cut" => (pc' # "cut" \/ merges' = merges + 1)]_vars
  /\ [][Ngroups(newLabels') <= Ngroups(newLabels)]_vars

\* The loop has ended after merging three or more nodes into one.
C3_Witness ==
  /\ pc = "translate"
  /\ Nnodes >= 3
  /\ merges = Nnodes - 1
  /\ Ngroups(newLabels) = 1

\* C4: with n_clusters greater than the number of nodes, graph_cut_approx makes
\* no merge and returns the identity relabeling.
C4_NoMergeWhenKExceedsNodes ==
  (pc = "translate" /\ n_clusters # None /\ n_clusters > Nnodes) =>
    (merges = 0 /\ newLabels = arange(Nnodes))

Symmetric(sm) == \A a \in DOMAIN sm, b \in DOMAIN sm : sm[a][b] = sm[b][a]

HasSimMat == pc \in {"complete", "cut", "translate", "done"}

\* C5 as stated: the similarity matrix is symmetric with an all-zero diagonal
\* after it is built, after complete_matrix and after every merge step.
C5_SymmetricZeroDiagonal ==
  HasSimMat => (Symmetric(simMat) /\ \A a \in DOMAIN simMat : simMat[a][a] = 0)

\* C5 as amended: the similarity matrix is symmetric in each of those states,
\* and its diagonal entry is 0 for every node no merge has invalidated and -1
\* for every node a merge has invalidated.
C5_SymmetricLiveDiagonalZero ==
  HasSimMat =>
    /\ Symmetric(simMat)
    /\ \A a \in DOMAIN simMat : simMat[a][a] = IF a \in invalidated THEN -1 ELSE 0

\* complete_matrix has added an entry and two merge steps have followed.
C5_Witness ==
  /\ pc = "cut"
  /\ NeedsCompletion(Nnodes)
  /\ merges >= 2
  /\ \E a \in DOMAIN netMat, b \in DOMAIN netMat : netMat[a][b] = 0 /\ a # b

\* The samples of a set, as the array a group is.
GroupSeq(S) == SortedSeq(S)

\* The rows of the table of the given kind with one end in g1 and the other in g2.
EdgesBetween(g1, g2, consVal) ==
  Cardinality({k \in 1..Len(constraintMat) :
     /\ constraintMat[k][3] = consVal
     /\ \/ constraintMat[k][1] \in g1 /\ constraintMat[k][2] \in g2
        \/ constraintMat[k][1] \in g2 /\ constraintMat[k][2] \in g1})

\* C6: for disjoint groups, number_of_constraints is the number of edges of the
\* kind between them, and is the same with the groups exchanged.
C6_CountIsEdgesAndSymmetric ==
  \A g1 \in SUBSET (0..(N - 1)), g2 \in SUBSET (0..(N - 1)), consVal \in {CLval, MLval} :
    g1 \cap g2 = {} =>
      /\ number_of_constraints(GroupSeq(g1), GroupSeq(g2), consVal)
           = EdgesBetween(g1, g2, consVal)
      /\ number_of_constraints(GroupSeq(g1), GroupSeq(g2), consVal)
           = number_of_constraints(GroupSeq(g2), GroupSeq(g1), consVal)

Endpoints == UNION {{constraintMat[k][1], constraintMat[k][2]} : k \in 1..Len(constraintMat)}

\* C7: constrainedSamps is exactly the set of sample indices that are an
\* endpoint of some constraint row.
C7_ConstrainedSampsAreEndpoints == Range(constrainedSamps) = Endpoints

\* C8: in every store that is built, no pair is both in ML and in CL (a table
\* with such a pair is refused).
C8_BuiltStoreHasNoPairBothKinds == NoPairBothKinds

AtCutEntry == pc = "cut" /\ merges = 0

\* C9 as stated: with M <= 2k+2 = 6 nodes the matrix given to graph_cut_approx is
\* the matrix of net constraint counts built in merge_nodes.
C9_NoCompletionUpTo2kPlus2 ==
  (AtCutEntry /\ Nnodes <= 2 * Nneigh + 2) => simMat = netMat

\* C9 as amended: with M <= 2k = 4 nodes the matrix given to graph_cut_approx
\* is the matrix of net constraint counts built in merge_nodes.
C9_NoCompletionUpTo2k ==
  (AtCutEntry /\ Nnodes <= 2 * Nneigh) => simMat = netMat

\* graph_cut_approx is entered with four nodes, some pair of which has a net
\* count of 0 that complete_matrix could have filled.
C9_Witness ==
  /\ AtCutEntry
  /\ Nnodes = 2 * Nneigh
  /\ \E a \in DOMAIN netMat, b \in DOMAIN netMat : a # b /\ netMat[a][b] = 0

\* C10: translate_labels leaves every constrained sample of working label l
\* with the final label newLabels[l]; so two samples end with equal labels
\* exactly when the cut gave their working labels the same group.
C10_TranslateAppliesRelabeling ==
  pc = "done" =>
    /\ \A k \in 1..Len(labelSet) : labelSet[k] = newLabels[workLabels[k]]
    /\ \A j \in 1..Len(labelSet), k \in 1..Len(labelSet) :
         (labelSet[j] = labelSet[k])
           <=> (newLabels[workLabels[j]] = newLabels[workLabels[k]])

\* A sample was rewritten to a label greater than its working label, a label
\* the loop of translate_labels came to afterwards.
C10_Witness ==
  /\ pc = "done"
  /\ \E k \in 1..Len(labelSet) : newLabels[workLabels[k]] > workLabels[k]

====
